---- MODULE Spec2Model ----
(***************************************************************************)
(* TrailTemps data tools: the id migration (migrate-ids-at-main), the      *)
(* mixed re-keying of the Normals Store (migrate-historical-ids-mixed),    *)
(* the mile normalisation (normalize-points-mile-only) and the Normals     *)
(* Aggregator (generate-missing-normals-at), run one at a time over the    *)
(* two JSON files points.json and historical_weather.json.                 *)
(*                                                                         *)
(* A mile is held as an integer number of 1/MileDen miles, so that the     *)
(* rounding done by mileToToken is visible.  NoVal is an absent string      *)
(* field.  A field read as a number holds Num(n), NoNum when it is absent, *)
(* NullNum when it holds null and BadNum when it holds a value whose       *)
(* Number() is NaN, such as "abc".                                         *)
(***************************************************************************)
EXTENDS Integers, Sequences, FiniteSets, TLC

VARIABLES pointsFile, histFile, tool, pc, outcome, mem, runBak, atStart,
          prevRun, queue, inflight, lastStatus, requested, arg, res

vars == <<pointsFile, histFile, tool, pc, outcome, mem, runBak, atStart,
          prevRun, queue, inflight, lastStatus, requested, arg, res>>

fileVars == <<pointsFile, histFile>>
aggVars == <<queue, inflight, lastStatus, requested>>

\* the arguments and the result of a function applied on its own
callVars == <<arg, res>>

-----------------------------------------------------------------------------
(* Bounds of the checked instances *)

MaxPoints == 2
MaxRecs == 2
\* miles tried at each end of the range of the codec, in 1/MileDen
MaxTick == 6
\* observations of a daily series
MaxObs == 3
\* the widest window of days tried
MaxWindow == 3
\* points of a sequence searched by mile
MaxNear == 3
\* points of the trail of a trip
MaxTrail == 2
\* days of a trip
MaxDays == 3

-----------------------------------------------------------------------------
(* Values and configuration *)

NoVal == "<absent>"

Num(n) == [t |-> "num", n |-> n]
NoNum == [t |-> "absent", n |-> 0]
NullNum == [t |-> "null", n |-> 0]
BadNum == [t |-> "text", n |-> 0]
NaN == [t |-> "NaN", n |-> 0]

TRAIL_CODE == "at"
ALIGNMENT == "main"
SCALE == 1000
PAD_WIDTH == 7

MileDen == 2 * SCALE

\* Number.isFinite(v)
IsFinite(v) == v.t = "num"

\* Number(v) of a JSON value or of an absent field
NumberOf(v) ==
  IF v.t = "num" THEN v ELSE IF v.t = "null" THEN Num(0) ELSE NaN

\* v != null of a field: neither null nor absent
NotNull(v) == v.t \notin {"null", "absent"}

\* Math.round(num / den), den > 0: the nearest integer, a half going up
MathRound(num, den) == (2 * num + den) \div (2 * den)

Digit(d) == CASE d = 0 -> "0" [] d = 1 -> "1" [] d = 2 -> "2" [] d = 3 -> "3"
              [] d = 4 -> "4" [] d = 5 -> "5" [] d = 6 -> "6" [] d = 7 -> "7"
              [] d = 8 -> "8" [] d = 9 -> "9"

RECURSIVE NatStr(_)
NatStr(n) == IF n < 10 THEN Digit(n) ELSE NatStr(n \div 10) \o Digit(n % 10)

DigitVal(c) == CASE c = "0" -> 0 [] c = "1" -> 1 [] c = "2" -> 2 [] c = "3" -> 3
                 [] c = "4" -> 4 [] c = "5" -> 5 [] c = "6" -> 6 [] c = "7" -> 7
                 [] c = "8" -> 8 [] c = "9" -> 9

IsDigits(s) ==
  \A k \in 1..Len(s) :
    SubSeq(s, k, k) \in {"0", "1", "2", "3", "4", "5", "6", "7", "8", "9"}

\* Number(s) of a string of decimal digits
RECURSIVE NumberOfDigits(_)
NumberOfDigits(s) ==
  IF Len(s) = 0 THEN 0
  ELSE 10 * NumberOfDigits(SubSeq(s, 1, Len(s) - 1))
         + DigitVal(SubSeq(s, Len(s), Len(s)))

\* String(n) of an integer
StringOf(n) == IF n < 0 THEN "-" \o NatStr(0 - n) ELSE NatStr(n)

RECURSIVE Repeat(_, _)
Repeat(s, k) == IF k <= 0 THEN "" ELSE s \o Repeat(s, k - 1)

\* as padStart, but nothing is put before s
padStart_None(s, width) == s

\* s.padStart(width, "0")
padStart(s, width) == Repeat("0", width - Len(s)) \o s

\* s.startsWith(prefix)
startsWith(s, prefix) ==
  /\ Len(s) >= Len(prefix)
  /\ SubSeq(s, 1, Len(prefix)) = prefix

IdsOf(recs) == {recs[i].id : i \in DOMAIN recs}

\* ?? of JavaScript: the left value unless it is null or absent
Coalesce(a, b) == IF a # NoVal THEN a ELSE b

-----------------------------------------------------------------------------
(* Identity codec: migrate-ids-at-main *)

\* the mile a point is keyed by, or NaN when mileFromPoint throws
mileFromPoint(p) ==
  IF NotNull(p.mile) THEN NumberOf(p.mile) ELSE NumberOf(p.mile_est)

\* as mileToToken, but the mile is kept to the hundredth
mileToToken_Hundredths(mile) ==
  padStart(StringOf(MathRound(mile.n, 10 * (MileDen \div SCALE))), PAD_WIDTH)

\* of a finite mile: Math.round(mile * SCALE), the mile being mile.n / MileDen
mileToToken(mile) ==
  padStart(StringOf(MathRound(mile.n, MileDen \div SCALE)), PAD_WIDTH)

toNewId(mile) == TRAIL_CODE \o "-" \o ALIGNMENT \o "-mi" \o mileToToken(mile)

\* TRUE when ensureUniqueIds returns, FALSE when it throws
ensureUniqueIds(recs) ==
  \A i, j \in DOMAIN recs : recs[i].id = recs[j].id => i = j

-----------------------------------------------------------------------------
(* Store files.  mode is the shape of the JSON root: a bare array           *)
(* ("rootArray"), an object with a points array ("pointsArray"), an object   *)
(* without one ("objNoPoints") or null ("nullRoot").  recs are the records,  *)
(* meta the provenance notes of the root object.                             *)

File(mode, recs, meta) == [mode |-> mode, recs |-> recs, meta |-> meta]

NoFile == File("<none>", <<>>, {})
NoMem == [points |-> NoFile, hist |-> NoFile]
NoBak == [points |-> NoFile, hist |-> NoFile]
NoPoint == [id |-> NoVal]
NoCall == [fn |-> "none"]

Errors == {"shape", "noMile", "dupPoint", "unmatched", "dupNormal",
           "noLegacy", "http", "noDaily", "typeError"}

\* what every run does first: it remembers the run before it
BeginRun(t) ==
  /\ pc = "idle"
  /\ tool' = t
  /\ atStart' = [points |-> pointsFile, hist |-> histFile]
  /\ prevRun' = [tool |-> tool, outcome |-> outcome]
  /\ runBak' = NoBak
  /\ queue' = <<>>
  /\ inflight' = NoPoint
  /\ lastStatus' = 0
  /\ requested' = <<>>
  /\ UNCHANGED callVars

\* the run ends by a thrown error; nothing more is done
Throw(e) ==
  /\ pc' = "idle"
  /\ outcome' = e
  /\ mem' = NoMem

\* as backupFile, but nothing is copied
backupFile_NoCopy(name) ==
  runBak' = runBak

\* backupFile(p): fs.copyFileSync(p, `${p}.${tag}.bak`)
backupFile(name) ==
  runBak' = [runBak EXCEPT ![name] = IF name = "points" THEN pointsFile ELSE histFile]

-----------------------------------------------------------------------------
(* migrate-ids-at-main: main *)

\* legacyToNew.get(k) after the pass over the points
legacyToNew(points, k) ==
  IF \E i \in DOMAIN points : points[i].id = k
  THEN toNewId(mileFromPoint(points[
         CHOOSE i \in DOMAIN points :
           /\ points[i].id = k
           /\ \A j \in DOMAIN points : points[j].id = k => j <= i]))
  ELSE NoVal

\* as UpdatedPoint, but the mile the id was made from is stored as mile
UpdatedPoint_StoresMile(p) ==
  [p EXCEPT !.legacy_id = Coalesce(p.legacy_id, p.id),
            !.id = toNewId(mileFromPoint(p)),
            !.mile = mileFromPoint(p)]

\* as UpdatedPoint, but legacy_id: legacyId
UpdatedPoint_Overwrites(p) ==
  [p EXCEPT !.legacy_id = p.id,
            !.id = toNewId(mileFromPoint(p))]

\* { ...p, legacy_id: p.legacy_id ?? legacyId, id: newId }
UpdatedPoint(p) ==
  [p EXCEPT !.legacy_id = Coalesce(p.legacy_id, p.id),
            !.id = toNewId(mileFromPoint(p))]

updatedPoints(points) == [i \in DOMAIN points |-> UpdatedPoint(points[i])]

\* { ...rec, legacy_id: rec.legacy_id ?? legacyId, id: newId }
UpdatedNormal(points, rec) ==
  [rec EXCEPT !.legacy_id = Coalesce(rec.legacy_id, rec.id),
              !.id = legacyToNew(points, rec.id)]

updatedNormalsArr(points, recs) ==
  [i \in DOMAIN recs |-> UpdatedNormal(points, recs[i])]

\* TRUE when getNormalsArray returns, FALSE when it throws
getNormalsArray(root) == root.mode \in {"rootArray", "pointsArray"}

\* the root written back: the array itself, or the object with its meta
\* extended by the id notes
updatedNormalsRoot(points, root) ==
  IF root.mode = "rootArray"
  THEN File("rootArray", updatedNormalsArr(points, root.recs), {})
  ELSE File("pointsArray", updatedNormalsArr(points, root.recs),
            root.meta \cup {"id_migration_note"})

\* the first error main throws on these two files, "none" when it throws none
MigError(pf, hf) ==
  IF pf.mode # "rootArray" THEN "shape"
  ELSE IF \E i \in DOMAIN pf.recs : ~IsFinite(mileFromPoint(pf.recs[i]))
    THEN "noMile"
  ELSE IF ~ensureUniqueIds(updatedPoints(pf.recs)) THEN "dupPoint"
  ELSE IF ~getNormalsArray(hf) THEN "shape"
  ELSE IF \E i \in DOMAIN hf.recs : legacyToNew(pf.recs, hf.recs[i].id) = NoVal
    THEN "unmatched"
  ELSE IF ~ensureUniqueIds(updatedNormalsArr(pf.recs, hf.recs)) THEN "dupNormal"
  ELSE "none"

\* as MigStart, but the points are written before the normals are read
MigStart_WritesPointsFirst ==
  /\ BeginRun("mig")
  /\ IF MigError(pointsFile, histFile) # "none"
     THEN /\ Throw(MigError(pointsFile, histFile))
          /\ pointsFile' =
               IF MigError(pointsFile, histFile) \in {"shape", "unmatched", "dupNormal"}
                  /\ pointsFile.mode = "rootArray"
               THEN File("rootArray", updatedPoints(pointsFile.recs), {})
               ELSE pointsFile
     ELSE /\ pc' = "migBakP"
          /\ outcome' = "running"
          /\ mem' = [points |-> File("rootArray", updatedPoints(pointsFile.recs), {}),
                     hist |-> updatedNormalsRoot(pointsFile.recs, histFile)]
          /\ UNCHANGED pointsFile
  /\ UNCHANGED histFile

\* lines 94-170: read both files, re-key in memory, validate
MigStart ==
  /\ BeginRun("mig")
  /\ IF MigError(pointsFile, histFile) # "none"
     THEN Throw(MigError(pointsFile, histFile))
     ELSE /\ pc' = "migBakP"
          /\ outcome' = "running"
          /\ mem' = [points |-> File("rootArray", updatedPoints(pointsFile.recs), {}),
                     hist |-> updatedNormalsRoot(pointsFile.recs, histFile)]
  /\ UNCHANGED fileVars

\* line 173
MigBackupPoints ==
  /\ pc = "migBakP"
  /\ backupFile("points")
  /\ pc' = "migBakN"
  /\ UNCHANGED <<fileVars, tool, outcome, mem, atStart, prevRun, callVars, aggVars>>

\* as MigBackupNormals, but without the copy
MigBackupNormals_NoCopy ==
  /\ pc = "migBakN"
  /\ pc' = "migWrP"
  /\ UNCHANGED <<fileVars, tool, outcome, mem, runBak, atStart, prevRun, callVars, aggVars>>

\* line 174
MigBackupNormals ==
  /\ pc = "migBakN"
  /\ backupFile("hist")
  /\ pc' = "migWrP"
  /\ UNCHANGED <<fileVars, tool, outcome, mem, atStart, prevRun, callVars, aggVars>>

\* line 177
MigWritePoints ==
  /\ pc = "migWrP"
  /\ pointsFile' = mem.points
  /\ pc' = "migWrN"
  /\ UNCHANGED <<histFile, tool, outcome, mem, runBak, atStart, prevRun, callVars, aggVars>>

\* line 178 and the report, which reads updatedPoints[0].legacy_id
MigWriteNormals ==
  /\ pc = "migWrN"
  /\ histFile' = mem.hist
  /\ pc' = "idle"
  /\ outcome' = IF mem.points.recs = <<>> THEN "typeError" ELSE "ok"
  /\ UNCHANGED <<pointsFile, tool, mem, runBak, atStart, prevRun, callVars, aggVars>>

\* a run that has begun is ended from outside, or an fs call of it throws:
\* the step it was about to take is not taken
Interrupt ==
  /\ pc # "idle"
  /\ pc' = "idle"
  /\ outcome' = "crashed"
  /\ UNCHANGED <<fileVars, tool, mem, runBak, atStart, prevRun, callVars, aggVars>>

-----------------------------------------------------------------------------
(* migrate-historical-ids-mixed: main *)

isNewId(id) == startsWith(id, "at-main-mi")

\* legacyToNew.get(k): legacy_id -> id of the last point with that legacy_id
mixedLegacyToNew(points, k) ==
  IF \E i \in DOMAIN points : points[i].legacy_id = k
  THEN points[CHOOSE i \in DOMAIN points :
                /\ points[i].legacy_id = k
                /\ \A j \in DOMAIN points : points[j].legacy_id = k => j <= i].id
  ELSE NoVal

\* newToLegacy.get(k): id -> legacy_id of the last point with that id
newToLegacy(points, k) ==
  IF \E i \in DOMAIN points : points[i].id = k
  THEN points[CHOOSE i \in DOMAIN points :
                /\ points[i].id = k
                /\ \A j \in DOMAIN points : points[j].id = k => j <= i].legacy_id
  ELSE NoVal

\* as MixedRecord, but legacy_id: currentId
MixedRecord_Overwrites(points, rec) ==
  IF isNewId(rec.id)
  THEN IF Coalesce(rec.legacy_id, newToLegacy(points, rec.id)) # NoVal
          /\ rec.legacy_id = NoVal
       THEN [rec EXCEPT !.legacy_id = newToLegacy(points, rec.id)]
       ELSE rec
  ELSE [rec EXCEPT !.legacy_id = rec.id,
                   !.id = mixedLegacyToNew(points, rec.id)]

\* as MixedRecord, but a record of a canonical id is returned as it is
MixedRecord_NoBackfill(points, rec) ==
  IF isNewId(rec.id)
  THEN rec
  ELSE [rec EXCEPT !.legacy_id = Coalesce(rec.legacy_id, rec.id),
                   !.id = mixedLegacyToNew(points, rec.id)]

\* the callback of histRoot.points.map, lines 59-85
MixedRecord(points, rec) ==
  IF isNewId(rec.id)
  THEN IF Coalesce(rec.legacy_id, newToLegacy(points, rec.id)) # NoVal
          /\ rec.legacy_id = NoVal
       THEN [rec EXCEPT !.legacy_id = newToLegacy(points, rec.id)]
       ELSE rec
  ELSE [rec EXCEPT !.legacy_id = Coalesce(rec.legacy_id, rec.id),
                   !.id = mixedLegacyToNew(points, rec.id)]

mixedUpdated(points, recs) == [i \in DOMAIN recs |-> MixedRecord(points, recs[i])]

MixedError(pf, hf) ==
  IF pf.mode # "rootArray" THEN "shape"
  ELSE IF \E i \in DOMAIN pf.recs : pf.recs[i].legacy_id = NoVal THEN "noLegacy"
  ELSE IF hf.mode # "pointsArray" THEN "shape"
  ELSE IF \E i \in DOMAIN hf.recs :
            /\ ~isNewId(hf.recs[i].id)
            /\ mixedLegacyToNew(pf.recs, hf.recs[i].id) = NoVal
    THEN "unmatched"
  ELSE "none"

\* lines 31-85
MixedStart ==
  /\ BeginRun("mixed")
  /\ IF MixedError(pointsFile, histFile) # "none"
     THEN Throw(MixedError(pointsFile, histFile))
     ELSE /\ pc' = "mixBak"
          /\ outcome' = "running"
          /\ mem' = [points |-> NoFile,
                     hist |-> File("pointsArray",
                                   mixedUpdated(pointsFile.recs, histFile.recs),
                                   histFile.meta \cup {"id_migration_note"})]
  /\ UNCHANGED fileVars

\* line 87
MixedBackup ==
  /\ pc = "mixBak"
  /\ backupFile("hist")
  /\ pc' = "mixWr"
  /\ UNCHANGED <<fileVars, tool, outcome, mem, atStart, prevRun, callVars, aggVars>>

\* line 98
MixedWrite ==
  /\ pc = "mixWr"
  /\ histFile' = mem.hist
  /\ pc' = "idle"
  /\ outcome' = "ok"
  /\ UNCHANGED <<pointsFile, tool, mem, runBak, atStart, prevRun, callVars, aggVars>>

-----------------------------------------------------------------------------
(* normalize-points-mile-only: main *)

\* the mile normalizePoint gives the point, NaN when it throws
normalizedMile(pt) ==
  IF NotNull(pt.mile) /\ IsFinite(NumberOf(pt.mile))
  THEN NumberOf(pt.mile)
  ELSE NumberOf(pt.mile_est)

\* { ...pt, mile } without mile_est
normalizePoint(pt) ==
  [pt EXCEPT !.mile = normalizedMile(pt), !.mile_est = NoNum]

\* isArray ? data : (data.points || [])
normPoints(data) ==
  IF data.mode \in {"rootArray", "pointsArray"} THEN data.recs ELSE <<>>

NormError(data) ==
  IF data.mode = "nullRoot" THEN "typeError"
  ELSE IF \E i \in DOMAIN normPoints(data) :
            ~IsFinite(normalizedMile(normPoints(data)[i]))
    THEN "noMile"
  ELSE "none"

\* isArray ? normalized : { ...data, points: normalized }
normOut(data) ==
  File(IF data.mode = "rootArray" THEN "rootArray" ELSE "pointsArray",
       [i \in DOMAIN normPoints(data) |-> normalizePoint(normPoints(data)[i])],
       data.meta)

\* lines 48-64
NormStart ==
  /\ BeginRun("norm")
  /\ IF NormError(pointsFile) # "none"
     THEN Throw(NormError(pointsFile))
     ELSE /\ pc' = "normBak"
          /\ outcome' = "running"
          /\ mem' = [points |-> normOut(pointsFile), hist |-> NoFile]
  /\ UNCHANGED fileVars

\* lines 66-67
NormBackup ==
  /\ pc = "normBak"
  /\ backupFile("points")
  /\ pc' = "normWr"
  /\ UNCHANGED <<fileVars, tool, outcome, mem, atStart, prevRun, callVars, aggVars>>

\* lines 69-70
NormWrite ==
  /\ pc = "normWr"
  /\ pointsFile' = mem.points
  /\ pc' = "idle"
  /\ outcome' = "ok"
  /\ UNCHANGED <<histFile, tool, mem, runBak, atStart, prevRun, callVars, aggVars>>

-----------------------------------------------------------------------------
(* generate-missing-normals-at: main *)

\* HTTP statuses the archive answers with, and the daily series of a 200
\* answer (NoVal: an answer without daily.time)
Statuses == {200, 404, 429, 503}
Dailies == {NoVal, "series"}

\* ensureHistShape(readJson(HIST_PATH)): the object main works on.  A bare
\* array keeps its elements (root) and gets a new, empty points property.
ensureHistShape(hf) ==
  [mode |-> hf.mode,
   root |-> IF hf.mode = "rootArray" THEN hf.recs ELSE <<>>,
   points |-> IF hf.mode = "pointsArray" THEN hf.recs ELSE <<>>,
   meta |-> hf.meta]

\* JSON.stringify(hist): of an array, the elements only
stringifyHist(h) ==
  IF h.mode = "rootArray"
  THEN File("rootArray", h.root, {})
  ELSE File("pointsArray", h.points, h.meta)

\* points.filter(p => !existingIds.has(String(p.id)))
missingPoints(points, h) ==
  SelectSeq(points, LAMBDA p : p.id \notin IdsOf(h.points))

coordsFinite(p) == IsFinite(NumberOf(p.lat)) /\ IsFinite(NumberOf(p.lon))

\* { id, ...(legacyId ? { legacy_id: legacyId } : {}), hi: hi365, lo: lo365 }
newRecord(p, daily) ==
  [id |-> p.id, legacy_id |-> p.legacy_id, hi |-> daily, lo |-> daily]

AggError(pf, hf) ==
  IF pf.mode # "rootArray" THEN "shape"
  ELSE IF hf.mode = "nullRoot" THEN "shape"
  ELSE "none"

\* lines 148-165
AggStart ==
  /\ pc = "idle"
  /\ tool' = "agg"
  /\ atStart' = [points |-> pointsFile, hist |-> histFile]
  /\ prevRun' = [tool |-> tool, outcome |-> outcome]
  /\ runBak' = NoBak
  /\ inflight' = NoPoint
  /\ lastStatus' = 0
  /\ requested' = <<>>
  /\ IF AggError(pointsFile, histFile) # "none"
     THEN /\ Throw(AggError(pointsFile, histFile))
          /\ queue' = <<>>
     ELSE /\ pc' = "aggLoop"
          /\ outcome' = "running"
          /\ mem' = [points |-> NoFile, hist |-> ensureHistShape(histFile)]
          /\ queue' = missingPoints(pointsFile.recs, ensureHistShape(histFile))
  /\ UNCHANGED <<fileVars, callVars>>

\* lines 170-175: a point without finite coordinates is passed over
AggSkip ==
  /\ pc = "aggLoop"
  /\ queue # <<>>
  /\ ~coordsFinite(Head(queue))
  /\ queue' = Tail(queue)
  /\ UNCHANGED <<fileVars, tool, pc, outcome, mem, runBak, atStart, prevRun, callVars,
                 inflight, lastStatus, requested>>

\* line 180, lines 79-90: the request of the next point is sent
AggRequest ==
  /\ pc = "aggLoop"
  /\ queue # <<>>
  /\ coordsFinite(Head(queue))
  /\ inflight' = Head(queue)
  /\ requested' = Append(requested, Head(queue).id)
  /\ pc' = "aggWait"
  /\ UNCHANGED <<fileVars, tool, outcome, mem, runBak, atStart, prevRun, callVars,
                 queue, lastStatus>>

\* as AggResponse, but the record of the point is pushed and the store
\* written before the answer is looked at
AggResponse_WritesFirst(status, daily) ==
  /\ pc = "aggWait"
  /\ lastStatus' = status
  /\ histFile' = stringifyHist(
       [mem.hist EXCEPT !.points = Append(@, newRecord(inflight, daily))])
  /\ IF status = 200 /\ daily # NoVal
     THEN /\ mem' = [mem EXCEPT
                       !.hist.points = Append(@, newRecord(inflight, daily)),
                       !.hist.meta = @ \cup {"normals_source"}]
          /\ pc' = "aggSleep"
          /\ queue' = Tail(queue)
          /\ inflight' = NoPoint
          /\ UNCHANGED outcome
     ELSE /\ Throw(IF status = 200 THEN "noDaily" ELSE "http")
          /\ UNCHANGED <<queue, inflight>>
  /\ UNCHANGED <<pointsFile, tool, runBak, atStart, prevRun, callVars, requested>>

\* as AggResponse, but a 429, 502 or 503 answer to the first request of a
\* point makes the request be sent again
AggResponse_Retries(status, daily) ==
  /\ pc = "aggWait"
  /\ lastStatus' = status
  /\ IF status = 200 /\ daily # NoVal
     THEN /\ mem' = [mem EXCEPT
                       !.hist.points = Append(@, newRecord(inflight, daily)),
                       !.hist.meta = @ \cup {"normals_source"}]
          /\ histFile' = stringifyHist(mem'.hist)
          /\ pc' = "aggSleep"
          /\ queue' = Tail(queue)
          /\ inflight' = NoPoint
          /\ UNCHANGED outcome
     ELSE IF status \in {429, 502, 503}
             /\ Cardinality({i \in DOMAIN requested : requested[i] = inflight.id}) = 1
     THEN /\ pc' = "aggLoop"
          /\ UNCHANGED <<histFile, queue, inflight, outcome, mem>>
     ELSE /\ Throw(IF status = 200 THEN "noDaily" ELSE "http")
          /\ UNCHANGED <<histFile, queue, inflight>>
  /\ UNCHANGED <<pointsFile, tool, runBak, atStart, prevRun, callVars, requested>>

\* as AggResponse, but the loop goes to the next point as soon as the store
\* is written
AggResponse_NoSleep(status, daily) ==
  /\ pc = "aggWait"
  /\ lastStatus' = status
  /\ IF status = 200 /\ daily # NoVal
     THEN /\ mem' = [mem EXCEPT
                       !.hist.points = Append(@, newRecord(inflight, daily)),
                       !.hist.meta = @ \cup {"normals_source"}]
          /\ histFile' = stringifyHist(mem'.hist)
          /\ pc' = "aggLoop"
          /\ queue' = Tail(queue)
          /\ inflight' = NoPoint
          /\ UNCHANGED outcome
     ELSE /\ Throw(IF status = 200 THEN "noDaily" ELSE "http")
          /\ UNCHANGED <<histFile, queue, inflight>>
  /\ UNCHANGED <<pointsFile, tool, runBak, atStart, prevRun, callVars, requested>>

\* lines 91-98 and 181-214: the answer arrives.  A good one is turned into
\* a record, pushed and the whole store written; any other one ends the run.
AggResponse(status, daily) ==
  /\ pc = "aggWait"
  /\ lastStatus' = status
  /\ IF status = 200 /\ daily # NoVal
     THEN /\ mem' = [mem EXCEPT
                       !.hist.points = Append(@, newRecord(inflight, daily)),
                       !.hist.meta = @ \cup {"normals_source"}]
          /\ histFile' = stringifyHist(mem'.hist)
          /\ pc' = "aggSleep"
          /\ queue' = Tail(queue)
          /\ inflight' = NoPoint
          /\ UNCHANGED outcome
     ELSE /\ Throw(IF status = 200 THEN "noDaily" ELSE "http")
          /\ UNCHANGED <<histFile, queue, inflight>>
  /\ UNCHANGED <<pointsFile, tool, runBak, atStart, prevRun, callVars, requested>>

\* line 206: the fixed delay between two requests has passed
AggSleep ==
  /\ pc = "aggSleep"
  /\ pc' = "aggLoop"
  /\ UNCHANGED <<fileVars, tool, outcome, mem, runBak, atStart, prevRun, callVars, aggVars>>

\* lines 217-218: no point is left
AggDone ==
  /\ pc = "aggLoop"
  /\ queue = <<>>
  /\ pc' = "idle"
  /\ outcome' = "ok"
  /\ UNCHANGED <<fileVars, tool, mem, runBak, atStart, prevRun, callVars, aggVars>>

-----------------------------------------------------------------------------
(* The files the tools are run on *)

LegacyId(i) == "GA_" \o NatStr(i)

\* the (mile, mile_est, lat) a point is entered with; miles in 1/MileDen.
\* Two points of one shape have one mile, and the miles 0.0095 and 0.010
\* round to one token.
PointShapes ==
  { <<Num(20), NoNum, Num(34)>>,    \* mile 0.010
    <<NoNum, Num(21), NoNum>>,      \* mile_est 0.0105, no mile, no latitude
    <<NoNum, NoNum, Num(34)>>,      \* neither mile nor mile_est
    <<BadNum, Num(19), Num(34)>> }  \* a mile that is not a number

\* a point as first entered, under its legacy id
MakePoint(i, sh) ==
  [id |-> LegacyId(i), legacy_id |-> NoVal, mile |-> sh[1], mile_est |-> sh[2],
   lat |-> sh[3], lon |-> Num(0 - 84), state |-> "GA"]

PointSeqs ==
  UNION {[1..n -> PointShapes] : n \in 0..MaxPoints}

LegacyPointRecs ==
  {[i \in DOMAIN shs |-> MakePoint(i, shs[i])] : shs \in PointSeqs}

\* Point Stores with unique ids: under legacy ids, or as an earlier id
\* migration has left them
InitPointRecs ==
  LegacyPointRecs \cup
  {updatedPoints(r) : r \in {q \in LegacyPointRecs :
      /\ \A i \in DOMAIN q : IsFinite(mileFromPoint(q[i]))
      /\ ensureUniqueIds(updatedPoints(q))}}

\* the (id, legacy_id) a record of the Normals Store is entered with:
\* a legacy id, a legacy id with a legacy_id of its own, a canonical id
RecShapes ==
  { <<LegacyId(1), NoVal>>, <<LegacyId(2), "OLD_2">>,
    <<toNewId(Num(20)), NoVal>> }

MakeRec(sh) == [id |-> sh[1], legacy_id |-> sh[2], hi |-> "old", lo |-> "old"]

InitHistRecs ==
  {[i \in DOMAIN shs |-> MakeRec(shs[i])] :
     shs \in UNION {[1..n -> RecShapes] : n \in 0..MaxRecs}}

Init ==
  /\ pointsFile \in {File(m, r, {}) : m \in {"rootArray", "pointsArray"}, r \in InitPointRecs}
                      \cup {File("objNoPoints", <<>>, {}), File("nullRoot", <<>>, {})}
  /\ histFile \in {File(m, r, {}) : m \in {"rootArray", "pointsArray"}, r \in InitHistRecs}
                      \cup {File("objNoPoints", <<>>, {}), File("nullRoot", <<>>, {})}
  /\ tool = "none"
  /\ pc = "idle"
  /\ outcome = "none"
  /\ mem = NoMem
  /\ runBak = NoBak
  /\ atStart = [points |-> pointsFile, hist |-> histFile]
  /\ prevRun = [tool |-> "none", outcome |-> "none"]
  /\ queue = <<>>
  /\ inflight = NoPoint
  /\ lastStatus = 0
  /\ requested = <<>>
  /\ arg = NoCall
  /\ res = NoCall

Next ==
  \/ MigStart \/ MigBackupPoints \/ MigBackupNormals
  \/ MigWritePoints \/ MigWriteNormals
  \/ MixedStart \/ MixedBackup \/ MixedWrite
  \/ NormStart \/ NormBackup \/ NormWrite
  \/ AggStart \/ AggSkip \/ AggRequest
  \/ (\E status \in Statuses, daily \in Dailies : AggResponse(status, daily))
  \/ AggSleep \/ AggDone
  \/ Interrupt

Spec == Init /\ [][Next]_vars

TypeOK ==
  /\ pc \in {"idle", "migBakP", "migBakN", "migWrP", "migWrN", "mixBak", "mixWr",
             "normBak", "normWr", "aggLoop", "aggWait", "aggSleep"}
  /\ tool \in {"none", "mig", "mixed", "norm", "agg"}
  /\ outcome \in {"none", "running", "ok", "crashed"} \cup Errors

-----------------------------------------------------------------------------
(* Properties *)

Ended(t) == tool = t /\ pc = "idle"

Unwritten == pointsFile = atStart.points /\ histFile = atStart.hist

IdLegacy(recs) == [i \in DOMAIN recs |-> <<recs[i].id, recs[i].legacy_id>>]

\* the run is an id migration started on the output of a successful one
MigRerun == tool = "mig" /\ prevRun.tool = "mig" /\ prevRun.outcome = "ok"

\* C1: an id migration run on the output of a successful id migration throws
\* no error, and at every moment of it the id and the legacy_id of every
\* point and of every normals record are what they were when it began.
C1_MigrationIdempotent ==
  MigRerun =>
    /\ outcome \notin Errors
    /\ IdLegacy(pointsFile.recs) = IdLegacy(atStart.points.recs)
    /\ IdLegacy(histFile.recs) = IdLegacy(atStart.hist.recs)

C1_Witness ==
  /\ MigRerun /\ pc = "idle" /\ outcome = "ok"
  /\ Len(pointsFile.recs) = 2 /\ histFile.recs # <<>>
  /\ \A i \in DOMAIN histFile.recs : histFile.recs[i].legacy_id # histFile.recs[i].id

\* C2 as claimed: an id migration run ends with both stores as they were
\* before it or both as migrated, however it ends.
C2_BothOrNeither ==
  Ended("mig") =>
    \/ Unwritten
    \/ pointsFile = mem.points /\ histFile = mem.hist

\* C2 as amended: a run that ends normally leaves both stores migrated, a
\* run that throws a validation error or fails before its first write leaves
\* both as they were, and a run that fails between the two writes leaves the
\* Point Store migrated and the Normals Store as it was, with the former
\* content of both in the backups of the run.
C2_Amended ==
  Ended("mig") =>
    /\ outcome \in {"ok", "typeError"} =>
         pointsFile = mem.points /\ histFile = mem.hist
    /\ outcome \in Errors \ {"typeError"} => Unwritten
    /\ outcome = "crashed" =>
         \/ Unwritten
         \/ /\ pointsFile = mem.points
            /\ histFile = atStart.hist
            /\ runBak = atStart

C2_Witness ==
  /\ Ended("mig") /\ outcome = "crashed"
  /\ pointsFile # atStart.points
  /\ histFile = atStart.hist /\ histFile # mem.hist

\* C3: an id migration run that throws one of the four validation errors has
\* written neither store and made no backup.
C3_FatalWritesNothing ==
  (tool = "mig" /\ outcome \in {"noMile", "dupPoint", "unmatched", "dupNormal"}) =>
    /\ pc = "idle"
    /\ Unwritten
    /\ runBak = NoBak

C3_Witness ==
  /\ Ended("mig") /\ outcome = "dupNormal"
  /\ ensureUniqueIds(updatedPoints(pointsFile.recs))
  /\ updatedPoints(pointsFile.recs) # pointsFile.recs

\* C4 as claimed: after a successful run of either migration every normals
\* record has the id of exactly one point.
C4_NormalsResolve ==
  (pc = "idle" /\ outcome = "ok" /\ tool \in {"mig", "mixed"}) =>
    \A i \in DOMAIN histFile.recs :
      Cardinality({j \in DOMAIN pointsFile.recs :
                     pointsFile.recs[j].id = histFile.recs[i].id}) = 1

\* C5 as claimed: after a successful run of either migration no two points
\* and no two normals records share an id (stated here of the runs that
\* began on stores without a shared id, so that a shared id is one the
\* re-keying has made).
C5_IdsUnique ==
  (pc = "idle" /\ outcome = "ok" /\ tool \in {"mig", "mixed"}
     /\ ensureUniqueIds(atStart.points.recs)
     /\ ensureUniqueIds(atStart.hist.recs)) =>
    /\ ensureUniqueIds(pointsFile.recs)
    /\ ensureUniqueIds(histFile.recs)

KeepsLegacy(old, new) ==
  \A i \in DOMAIN old :
    old[i].legacy_id # NoVal =>
      i \in DOMAIN new /\ new[i].legacy_id = old[i].legacy_id

\* C6: no step of any tool changes or drops the legacy_id a point or a
\* normals record already has.
C6_LegacyIdKept ==
  [][/\ KeepsLegacy(pointsFile.recs, pointsFile'.recs)
     /\ KeepsLegacy(histFile.recs, histFile'.recs)]_vars

C6_Witness ==
  /\ Ended("mixed") /\ outcome = "ok"
  /\ \E i \in DOMAIN histFile.recs :
       /\ atStart.hist.recs[i].legacy_id # NoVal
       /\ atStart.hist.recs[i].id # histFile.recs[i].id
       /\ histFile.recs[i].legacy_id # atStart.hist.recs[i].id

IdSeq(recs) == [i \in DOMAIN recs |-> recs[i].id]

\* the points an Aggregator run has to fetch, given the files it starts on
ToFetch ==
  SelectSeq(atStart.points.recs,
            LAMBDA p : p.id \notin IdsOf(atStart.hist.recs) /\ coordsFinite(p))

\* C7 as claimed: an Aggregator run that follows an interrupted one and runs
\* to its end has requested exactly the points that had no record on disk
\* when it began, and the store then holds the records it began with,
\* unchanged, followed by one record per requested point.
C7_ResumeFetchesTheRest ==
  (Ended("agg") /\ outcome = "ok" /\ prevRun.tool = "agg"
     /\ prevRun.outcome \in {"crashed", "http", "noDaily"}) =>
    /\ requested = IdSeq(ToFetch)
    /\ IdSeq(histFile.recs) = IdSeq(atStart.hist.recs) \o requested
    /\ SubSeq(histFile.recs, 1, Len(atStart.hist.recs)) = atStart.hist.recs

Failed == outcome \in {"http", "noDaily"}

Occurrences(seq, x) == Cardinality({i \in DOMAIN seq : seq[i] = x})

Retryable == {429, 502, 503}

Completed == {requested[i] : i \in DOMAIN requested} \ {inflight.id}

\* C21: an Aggregator run started on a Normals Store that is a bare array
\* requests no point whose id is in that array, and the record of every
\* point it has completed is in the store on disk.
C21_BareArrayStore ==
  (tool = "agg" /\ atStart.hist.mode = "rootArray") =>
    /\ \A i \in DOMAIN requested : requested[i] \notin IdsOf(atStart.hist.recs)
    /\ Completed \subseteq IdsOf(histFile.recs)

-----------------------------------------------------------------------------
(* The Aggregator run again and again over a Point Store it can read and *)
(* a Normals Store of unique ids                                         *)

InitAgg ==
  /\ pointsFile \in {File("rootArray", r, {}) : r \in InitPointRecs}
  /\ histFile \in {File(m, r, {}) : m \in {"rootArray", "pointsArray"},
                                    r \in {q \in InitHistRecs : ensureUniqueIds(q)}}
                    \cup {File("objNoPoints", <<>>, {})}
  /\ tool = "none"
  /\ pc = "idle"
  /\ outcome = "none"
  /\ mem = NoMem
  /\ runBak = NoBak
  /\ atStart = [points |-> pointsFile, hist |-> histFile]
  /\ prevRun = [tool |-> "none", outcome |-> "none"]
  /\ queue = <<>>
  /\ inflight = NoPoint
  /\ lastStatus = 0
  /\ requested = <<>>
  /\ arg = NoCall
  /\ res = NoCall

NextAgg ==
  \/ AggStart \/ AggSkip \/ AggRequest
  \/ (\E status \in Statuses, daily \in Dailies : AggResponse(status, daily))
  \/ AggSleep \/ AggDone
  \/ Interrupt

SpecAgg == InitAgg /\ [][NextAgg]_vars

\* runs that end only of themselves or by a bad answer
NextAggLive ==
  \/ AggStart \/ AggSkip \/ AggRequest
  \/ (\E status \in Statuses, daily \in Dailies : AggResponse(status, daily))
  \/ AggSleep \/ AggDone

\* the script goes on while it runs, it is run again after it has ended,
\* and the request of a point is not answered badly for ever
SpecAggLive ==
  /\ InitAgg /\ [][NextAggLive]_vars
  /\ WF_vars(AggStart) /\ WF_vars(AggSkip) /\ WF_vars(AggRequest)
  /\ WF_vars(AggSleep) /\ WF_vars(AggDone)
  /\ SF_vars(AggResponse(200, "series"))

\* the ids of the points that have a record on disk
Covered == IdsOf(pointsFile.recs) \cap IdsOf(histFile.recs)

AllCovered ==
  \A i \in DOMAIN pointsFile.recs :
    coordsFinite(pointsFile.recs[i]) => pointsFile.recs[i].id \in Covered

\* C22: under repeated Aggregator runs whose requests are answered well in
\* the end, the set of points that have a record never shrinks, from some
\* moment on every point with finite coordinates has a record, and a run
\* started when all have one sends no request.
C22_EventuallyAllCovered ==
  /\ [][Covered \subseteq Covered']_vars
  /\ <>[]AllCovered
  /\ [](AllCovered /\ atStart.hist = histFile => requested = <<>>)

\* C23: over Aggregator runs, complete or interrupted, no two records of
\* the Normals Store on disk have one id, and the write of a completed point
\* leaves on disk the records that were there followed by one more.
C23_OneRecordPerWrite ==
  /\ []ensureUniqueIds(histFile.recs)
  /\ [][(pc = "aggWait" /\ pc' = "aggSleep") =>
          /\ Len(histFile'.recs) = Len(histFile.recs) + 1
          /\ SubSeq(histFile'.recs, 1, Len(histFile.recs)) = histFile.recs
          /\ histFile'.recs[Len(histFile'.recs)].id = inflight.id]_vars

-----------------------------------------------------------------------------
(* The mile normalisation over points of every kind of mile *)

\* the (mile, mile_est, lat) of a point: both miles, mile_est alone, a mile
\* that is not a number, neither, a null mile_est, a null mile
MileShapes ==
  { <<Num(20), Num(21), Num(34)>>,
    <<NoNum, Num(21), Num(34)>>,
    <<BadNum, Num(19), Num(34)>>,
    <<NoNum, NoNum, Num(34)>>,
    <<NoNum, NullNum, Num(34)>>,
    <<NullNum, Num(23), Num(34)>> }

MilePointRecs ==
  {[i \in DOMAIN shs |-> MakePoint(i, shs[i])] :
     shs \in UNION {[1..n -> MileShapes] : n \in 0..MaxPoints}}

InitMile ==
  /\ pointsFile \in {File(m, r, {}) : m \in {"rootArray", "pointsArray"},
                                      r \in MilePointRecs}
                      \cup {File("objNoPoints", <<>>, {}), File("nullRoot", <<>>, {})}
  /\ histFile = File("pointsArray", <<>>, {})
  /\ tool = "none"
  /\ pc = "idle"
  /\ outcome = "none"
  /\ mem = NoMem
  /\ runBak = NoBak
  /\ atStart = [points |-> pointsFile, hist |-> histFile]
  /\ prevRun = [tool |-> "none", outcome |-> "none"]
  /\ queue = <<>>
  /\ inflight = NoPoint
  /\ lastStatus = 0
  /\ requested = <<>>
  /\ arg = NoCall
  /\ res = NoCall

NextMile == NormStart \/ NormBackup \/ NormWrite \/ Interrupt

SpecMile == InitMile /\ [][NextMile]_vars

\* the field holds a finite number
IsNumber(v) == v.t = "num"

\* C17: after a successful run of the mile normalisation every point of the
\* written Point Store has a finite mile, its former mile when that was a
\* finite number and its former mile_est otherwise, and no mile_est; a run
\* over a point that has neither as a finite number fails and writes nothing.
C17_NormalizedMiles ==
  Ended("norm") =>
    LET old == atStart.points.recs
        new == pointsFile.recs
    IN /\ outcome = "ok" =>
            /\ Len(new) = Len(old)
            /\ \A i \in DOMAIN new :
                 /\ IsNumber(new[i].mile)
                 /\ new[i].mile = IF IsNumber(old[i].mile) THEN old[i].mile
                                  ELSE old[i].mile_est
                 /\ new[i].mile_est = NoNum
       /\ (\E i \in DOMAIN old :
             ~IsNumber(old[i].mile) /\ ~IsNumber(old[i].mile_est)) =>
            /\ outcome # "ok"
            /\ Unwritten

\* C18: the id migration gives a point the id of its mile when its mile is
\* a finite number and the id of its mile_est otherwise, and it fails for
\* want of a mile only when some point has neither as a finite number.
C18_MileOrMileEst ==
  Ended("mig") =>
    LET old == atStart.points.recs
    IN /\ outcome = "noMile" =>
            \E i \in DOMAIN old :
              ~IsNumber(old[i].mile) /\ ~IsNumber(old[i].mile_est)
       /\ outcome = "ok" =>
            \A i \in DOMAIN old :
              pointsFile.recs[i].id =
                toNewId(IF IsNumber(old[i].mile) THEN old[i].mile
                        ELSE old[i].mile_est)

\* the legacy_id the claim gives a record of a canonical id: the one of a
\* point of that id when the record had none, its own otherwise
BackfilledFrom(points, old, new) ==
  IF old.legacy_id = NoVal /\ \E j \in DOMAIN points : points[j].id = old.id
  THEN \E j \in DOMAIN points :
         points[j].id = old.id /\ new.legacy_id = points[j].legacy_id
  ELSE new.legacy_id = old.legacy_id

AllCanonical(recs) ==
  recs # <<>> /\ \A i \in DOMAIN recs : isNewId(recs[i].id)

\* C19 as claimed: a migration run, of either migration script, over a
\* Normals Store of canonical ids does not fail for a record that matches no
\* point, and when it succeeds every record has the id it had, and a
\* legacy_id from the point of that id exactly when it had none and there is
\* such a point.
C19_CanonicalLeftAlone ==
  (/\ tool \in {"mig", "mixed"} /\ pc = "idle"
   /\ AllCanonical(atStart.hist.recs))
  => /\ outcome # "unmatched"
     /\ outcome = "ok" =>
          \A i \in DOMAIN atStart.hist.recs :
            /\ histFile.recs[i].id = atStart.hist.recs[i].id
            /\ BackfilledFrom(atStart.points.recs, atStart.hist.recs[i],
                              histFile.recs[i])

\* C19 as amended: the mixed re-keying never fails for a record of a
\* canonical id, and when it succeeds such a record has the id it had, and a
\* legacy_id from the point of that id exactly when it had none and there is
\* such a point; the id migration looks every record up by its id, and
\* succeeds only when every record id is the id of a point.
C19_Amended ==
  /\ Ended("mixed") =>
       /\ outcome = "unmatched" =>
            \E i \in DOMAIN atStart.hist.recs : ~isNewId(atStart.hist.recs[i].id)
       /\ outcome = "ok" =>
            \A i \in DOMAIN atStart.hist.recs :
              isNewId(atStart.hist.recs[i].id) =>
                /\ histFile.recs[i].id = atStart.hist.recs[i].id
                /\ BackfilledFrom(atStart.points.recs, atStart.hist.recs[i],
                                  histFile.recs[i])
  /\ (Ended("mig") /\ outcome = "ok") =>
       \A i \in DOMAIN atStart.hist.recs :
         atStart.hist.recs[i].id \in IdsOf(atStart.points.recs)

\* a record of a canonical id and no legacy_id has been given the legacy_id
\* of its point by the mixed re-keying
C19_Witness ==
  /\ Ended("mixed") /\ outcome = "ok"
  /\ \E i \in DOMAIN atStart.hist.recs :
       /\ isNewId(atStart.hist.recs[i].id)
       /\ atStart.hist.recs[i].legacy_id = NoVal
       /\ histFile.recs[i].legacy_id = LegacyId(1)

Malformed(f) == f.mode \in {"objNoPoints", "nullRoot"}

\* the stores the run of the tool reads at its start
ReadsMalformed ==
  \/ tool \in {"mig", "agg"} /\ (Malformed(atStart.points) \/ Malformed(atStart.hist))
  \/ tool = "norm" /\ Malformed(atStart.points)

\* C20: a run of the id migration, of the mile normalisation or of the
\* Aggregator that reads a store whose root is neither an array nor an
\* object with a points array writes no file and, unless it is interrupted,
\* ends in an error.
C20_MalformedIsFatal ==
  ReadsMalformed =>
    /\ Unwritten
    /\ runBak = NoBak
    /\ (pc = "idle" /\ outcome # "crashed") => outcome \in Errors

-----------------------------------------------------------------------------
(* The functions applied on their own: arg holds the function and its     *)
(* arguments, res its result once it has returned.  The tools stand idle. *)

toolVars == <<pointsFile, histFile, tool, pc, outcome, mem, runBak, atStart,
              prevRun, queue, inflight, lastStatus, requested>>

ToolsIdle ==
  /\ pointsFile = NoFile
  /\ histFile = NoFile
  /\ tool = "none"
  /\ pc = "idle"
  /\ outcome = "none"
  /\ mem = NoMem
  /\ runBak = NoBak
  /\ atStart = [points |-> NoFile, hist |-> NoFile]
  /\ prevRun = [tool |-> "none", outcome |-> "none"]
  /\ queue = <<>>
  /\ inflight = NoPoint
  /\ lastStatus = 0
  /\ requested = <<>>

-----------------------------------------------------------------------------
(* toNewId over the range of the trail *)

\* mile 9999.999, the last one of seven digits
MaxMileN == (10 * 1000 * SCALE - 1) * (MileDen \div SCALE)

\* miles at both ends of the range, and mile 2190.3
CodecMiles ==
  (0..MaxTick) \cup ((MaxMileN - MaxTick)..MaxMileN) \cup {4380600}

InitCodec ==
  /\ ToolsIdle
  /\ arg \in {[fn |-> "toNewId", m1 |-> Num(a), m2 |-> Num(b)] :
                a \in CodecMiles, b \in CodecMiles}
  /\ res = NoCall

Encode ==
  /\ arg.fn = "toNewId"
  /\ res = NoCall
  /\ res' = [fn |-> "toNewId", id1 |-> toNewId(arg.m1), id2 |-> toNewId(arg.m2)]
  /\ UNCHANGED <<toolVars, arg>>

NextCodec == Encode

SpecCodec == InitCodec /\ [][NextCodec]_vars

\* a multiple of 0.001 mile
IsThousandth(m) == m.n % (MileDen \div SCALE) = 0

\* C11: two distinct miles that are multiples of 0.001 in [0, 9999.999] are
\* given different ids by toNewId.
C11_DistinctMilesDistinctIds ==
  (/\ res.fn = "toNewId"
   /\ IsThousandth(arg.m1) /\ IsThousandth(arg.m2)
   /\ arg.m1 # arg.m2)
  => res.id1 # res.id2

C11_Witness ==
  /\ res.fn = "toNewId"
  /\ arg.m1 = Num(MaxMileN) /\ arg.m2 = Num(MaxMileN - 2)
  /\ res.id1 = "at-main-mi9999999" /\ res.id2 = "at-main-mi9999998"

\* C12: the id of a mile in [0, 9999.999] is "at-main-mi" followed by exactly
\* seven decimal digits whose number is the mile in thousandths rounded to
\* the nearest integer, a half going up; mile 2190.3 has at-main-mi2190300.
C12_IdFormat ==
  res.fn = "toNewId" =>
    /\ Len(res.id1) = Len("at-main-mi") + 7
    /\ SubSeq(res.id1, 1, 10) = "at-main-mi"
    /\ IsDigits(SubSeq(res.id1, 11, 17))
    /\ NumberOfDigits(SubSeq(res.id1, 11, 17)) = (arg.m1.n + 1) \div 2
    /\ arg.m1 = Num(4380600) => res.id1 = "at-main-mi2190300"

C12_Witness ==
  /\ res.fn = "toNewId"
  /\ arg.m1 = Num(4380600)
  /\ res.id1 = "at-main-mi2190300"


-----------------------------------------------------------------------------
(* Dates.  A Date is a year and a day of that year counted from 0; the   *)
(* Date constructor and setDate carry days over the ends of months and   *)
(* years.                                                                *)

IsLeap(y) == (y % 4 = 0 /\ y % 100 # 0) \/ y % 400 = 0

YearLen(y) == IF IsLeap(y) THEN 366 ELSE 365

DaysInMonth(y, m) ==
  IF m = 2 THEN (IF IsLeap(y) THEN 29 ELSE 28)
  ELSE IF m \in {4, 6, 9, 11} THEN 30 ELSE 31

\* the days of year y before its month m, m in 1..13
RECURSIVE DaysBefore(_, _)
DaysBefore(y, m) ==
  IF m <= 1 THEN 0 ELSE DaysBefore(y, m - 1) + DaysInMonth(y, m - 1)

RECURSIVE NormDate(_, _)
NormDate(y, n) ==
  IF n < 0 THEN NormDate(y - 1, n + YearLen(y - 1))
  ELSE IF n >= YearLen(y) THEN NormDate(y + 1, n - YearLen(y))
  ELSE [y |-> y, n |-> n]

\* new Date(y, m0, d), m0 in 0..11
NewDate(y, m0, d) == NormDate(y, DaysBefore(y, m0 + 1) + d - 1)

getMonth(dt) ==
  CHOOSE m \in 0..11 :
    DaysBefore(dt.y, m + 1) <= dt.n /\ dt.n < DaysBefore(dt.y, m + 2)

getDate(dt) == dt.n - DaysBefore(dt.y, getMonth(dt) + 1) + 1

\* d.setDate(d.getDate() + days)
addDays(dateObj, days) == NormDate(dateObj.y, dateObj.n + days)

\* `${mm}-${dd}` of a Date, both padded to two digits
MonthDayOf(dt) ==
  padStart(StringOf(getMonth(dt) + 1), 2) \o "-" \o padStart(StringOf(getDate(dt)), 2)

\* the month and the day of "MM-DD"
MonthOfKey(mmdd) == NumberOfDigits(SubSeq(mmdd, 1, 2))
DayOfKey(mmdd) == NumberOfDigits(SubSeq(mmdd, 4, 5))

\* whole days from Jan 1 2021 to a Date of 2021 or of the year after
dayIndexFromMMDD(mmdd) ==
  LET d == NewDate(2021, MonthOfKey(mmdd) - 1, DayOfKey(mmdd))
  IN IF d.y = 2021 THEN d.n ELSE YearLen(2021) + d.n

\* as isFeb29, but no date is taken for Feb 29
isFeb29_Never(isoDate) == FALSE

isFeb29(isoDate) ==
  /\ Len(isoDate) >= 6
  /\ SubSeq(isoDate, Len(isoDate) - 5, Len(isoDate)) = "-02-29"

\* iso.slice(5)
slice5(iso) == SubSeq(iso, 6, Len(iso))

monthDayFromDayIndex(i) == MonthDayOf(addDays(NewDate(2021, 0, 1), i))

-----------------------------------------------------------------------------
(* Annual averages: generate-missing-normals-at.  A daily series is a    *)
(* sequence of observations [time, max, min]; a mean is kept as its sum  *)
(* and its count.                                                        *)

Mean(sum, cnt) == [t |-> "num", n |-> sum, d |-> cnt]
NoMean == [t |-> "null", n |-> 0, d |-> 1]

RECURSIVE SumSeq(_)
SumSeq(q) == IF q = <<>> THEN 0 ELSE Head(q) + SumSeq(Tail(q))

\* the keys of acc in the order they were first set
RECURSIVE accKeys(_)
accKeys(daily) ==
  IF daily = <<>> THEN <<>>
  ELSE LET before == accKeys(SubSeq(daily, 1, Len(daily) - 1))
           iso == daily[Len(daily)].time
       IN IF isFeb29(iso) \/ \E k \in DOMAIN before : before[k] = slice5(iso)
          THEN before
          ELSE Append(before, slice5(iso))

\* the finite values of one field accumulated under mmdd
accValues(daily, mmdd, field) ==
  LET obs == SelectSeq(daily, LAMBDA o :
               /\ ~isFeb29(o.time)
               /\ slice5(o.time) = mmdd
               /\ IsFinite(o[field]))
  IN [k \in DOMAIN obs |-> obs[k][field].n]

\* as bucketMean, but a bucket without values gives 0
bucketMean_ZeroWhenEmpty(values) ==
  IF Len(values) = 0 THEN Mean(0, 1) ELSE Mean(SumSeq(values), Len(values))

\* b.maxN ? b.maxSum / b.maxN : null
bucketMean(values) ==
  IF Len(values) = 0 THEN NoMean ELSE Mean(SumSeq(values), Len(values))

\* the 365 slots of one field: a slot holds what the last key of acc with
\* its index has put there
slots365(daily, field) ==
  LET keys == accKeys(daily)
      idxs == [k \in DOMAIN keys |-> dayIndexFromMMDD(keys[k])]
  IN [i \in 0..364 |->
        LET ks == {k \in DOMAIN keys : idxs[k] = i}
        IN IF ks = {} THEN NoMean
           ELSE bucketMean(accValues(daily,
                  keys[CHOOSE k \in ks : \A j \in ks : j <= k], field))]

compute365AveragesFromDaily(daily) ==
  [hi |-> slots365(daily, "max"), lo |-> slots365(daily, "min")]

-----------------------------------------------------------------------------
(* Window-smoothed normals: the builder of part_002 and the planner of   *)
(* app.js                                                                *)

WINDOW_DAYS == 3

\* as mdWindowKeys, but the window is laid around the day of a leap year
mdWindowKeys_LeapBase(monthDay, windowDays) ==
  LET base == NewDate(2020, MonthOfKey(monthDay) - 1, DayOfKey(monthDay))
  IN [k \in 1..(2 * windowDays + 1) |->
        MonthDayOf(addDays(base, k - 1 - windowDays))]

\* part_002: the keys of the days base - windowDays .. base + windowDays
mdWindowKeys(monthDay, windowDays) ==
  LET base == NewDate(2021, MonthOfKey(monthDay) - 1, DayOfKey(monthDay))
  IN [k \in 1..(2 * windowDays + 1) |->
        MonthDayOf(addDays(base, k - 1 - windowDays))]

\* app.js: the same around a day of 2001, given as "YYYY-MM-DD"
appMdWindowKeys(dateISO, windowDays) ==
  LET m == NumberOfDigits(SubSeq(dateISO, 6, 7))
      d == NumberOfDigits(SubSeq(dateISO, 9, 10))
      base == NewDate(2001, m - 1, d)
  IN [k \in 1..(2 * windowDays + 1) |->
        MonthDayOf(addDays(base, k - 1 - windowDays))]

\* the bucket indexHistoricalByMonthDay keeps under md: the values of one
\* field that are not null, Feb 29 like any other day
bucketValues(histDaily, md, field) ==
  LET obs == SelectSeq(histDaily, LAMBDA o :
               slice5(o.time) = md /\ NotNull(o[field]))
  IN [k \in DOMAIN obs |-> obs[k][field].n]

\* the values of the buckets of keys, one after the other
RECURSIVE poolValues(_, _, _)
poolValues(histDaily, keys, field) ==
  IF keys = <<>> THEN <<>>
  ELSE bucketValues(histDaily, Head(keys), field)
         \o poolValues(histDaily, Tail(keys), field)

avg(arr) == IF Len(arr) = 0 THEN NoMean ELSE Mean(SumSeq(arr), Len(arr))

\* lines 138-146: the averages of the values pooled from the buckets of keys
poolAverages(histDaily, keys) ==
  [hi |-> avg(poolValues(histDaily, keys, "max")),
   lo |-> avg(poolValues(histDaily, keys, "min"))]

computePlanningForMonthDay(histDaily, monthDay, windowDays) ==
  poolAverages(histDaily, mdWindowKeys(monthDay, windowDays))

\* v == null ? null : Math.round(v)
roundMean(v) == IF v = NoMean THEN NoMean ELSE Mean(MathRound(v.n, v.d), 1)

\* the keys mdWindowKeys gives each of the 365 days of a record; they are
\* the same for every series
Windows365 ==
  [di \in 0..364 |-> mdWindowKeys(monthDayFromDayIndex(di), WINDOW_DAYS)]

\* part_002 lines 224-232: computePlanningForMonthDay of every day, rounded
windowed365(daily) ==
  [hi |-> [di \in 0..364 |-> roundMean(poolAverages(daily, Windows365[di]).hi)],
   lo |-> [di \in 0..364 |-> roundMean(poolAverages(daily, Windows365[di]).lo)]]

-----------------------------------------------------------------------------
(* The normals of a daily series, and the window of a day *)

\* the (time, max, min) of an observation
ObsShapes ==
  { <<"2020-02-28", Num(50), Num(30)>>,
    <<"2020-02-29", Num(90), Num(10)>>,
    <<"2020-03-01", Num(60), NullNum>>,
    <<"2021-03-01", Num(70), Num(40)>>,
    <<"2020-12-31", Num(20), Num(5)>> }

MakeObs(sh) == [time |-> sh[1], max |-> sh[2], min |-> sh[3]]

DailySeries ==
  {[i \in DOMAIN shs |-> MakeObs(shs[i])] :
     shs \in UNION {[1..n -> ObsShapes] : n \in 0..MaxObs}}

\* other (max, min) the archive could hold for a Feb 29
Feb29Values == { <<Num(10), Num(0)>>, <<NullNum, Num(95)>> }

\* the series with v as the values of its Feb 29 observations
WithFeb29(daily, v) ==
  [i \in DOMAIN daily |->
     IF slice5(daily[i].time) = "02-29"
     THEN [daily[i] EXCEPT !.max = v[1], !.min = v[2]]
     ELSE daily[i]]

InitNormals ==
  /\ ToolsIdle
  /\ arg \in {[fn |-> "normals", daily |-> d, other |-> WithFeb29(d, v)] :
                d \in DailySeries, v \in Feb29Values}
          \cup {[fn |-> "mdWindowKeys", dayIndex |-> di, windowDays |-> w] :
                di \in 0..364, w \in 0..MaxWindow}
  /\ res = NoCall

Annual ==
  /\ arg.fn = "normals"
  /\ res = NoCall
  /\ res' = [fn |-> "compute365AveragesFromDaily",
             a |-> compute365AveragesFromDaily(arg.daily),
             b |-> compute365AveragesFromDaily(arg.other)]
  /\ UNCHANGED <<toolVars, arg>>

Windowed ==
  /\ arg.fn = "normals"
  /\ res = NoCall
  /\ res' = [fn |-> "computePlanningForMonthDay",
             a |-> windowed365(arg.daily),
             b |-> windowed365(arg.other)]
  /\ UNCHANGED <<toolVars, arg>>

WindowKeys ==
  /\ arg.fn = "mdWindowKeys"
  /\ res = NoCall
  /\ res' = [fn |-> "mdWindowKeys",
             script |-> mdWindowKeys(monthDayFromDayIndex(arg.dayIndex),
                                     arg.windowDays),
             app |-> appMdWindowKeys(
                       "2001-" \o monthDayFromDayIndex(arg.dayIndex),
                       arg.windowDays)]
  /\ UNCHANGED <<toolVars, arg>>

NextNormals == Annual \/ Windowed \/ WindowKeys

SpecNormals == InitNormals /\ [][NextNormals]_vars

\* C13: two daily series that differ only in the values of their Feb 29
\* observations have the same hi and lo arrays, in the annual averages and
\* in the window-smoothed normals.
C13_Feb29Ignored ==
  res.fn \in {"compute365AveragesFromDaily", "computePlanningForMonthDay"}
    => res.a = res.b

\* the series hold a Feb 29 with different values after a Mar 1 that fills
\* its slot
C13_Witness ==
  /\ res.fn = "compute365AveragesFromDaily"
  /\ Len(arg.daily) = 2
  /\ arg.daily[1].time = "2020-03-01" /\ arg.daily[2].time = "2020-02-29"
  /\ arg.daily # arg.other
  /\ res.a.hi[59] = Mean(60, 1)
  /\ res.a = res.b

\* the key of day i of a year of 365 days, the days going round
CircularKey(i) == monthDayFromDayIndex(i % 365)

\* C14: the month-days pooled for reference day d with window W are the
\* 2W+1 consecutive days d-W..d+W of a non-leap year, taken circularly over
\* the end of the year, and Feb 29 is none of them; with W = 3, Dec 31 pools
\* Dec 28..Jan 3 and Jan 1 pools Dec 29..Jan 4.
C14_WindowIsCircular ==
  res.fn = "mdWindowKeys" =>
    LET W == arg.windowDays
        want == [k \in 1..(2 * W + 1) |->
                   CircularKey(arg.dayIndex + 365 - W + k - 1)]
    IN /\ res.script = want
       /\ res.app = want
       /\ \A k \in DOMAIN want : res.script[k] # "02-29" /\ res.app[k] # "02-29"
       /\ (arg.dayIndex = 364 /\ W = 3) =>
            res.script = <<"12-28", "12-29", "12-30", "12-31",
                           "01-01", "01-02", "01-03">>
       /\ (arg.dayIndex = 0 /\ W = 3) =>
            res.script = <<"12-29", "12-30", "12-31", "01-01",
                           "01-02", "01-03", "01-04">>

C14_Witness ==
  /\ res.fn = "mdWindowKeys"
  /\ arg.dayIndex = 364 /\ arg.windowDays = 3
  /\ res.app = <<"12-28", "12-29", "12-30", "12-31", "01-01", "01-02", "01-03">>
  /\ res.script = res.app


-----------------------------------------------------------------------------
(* app.js: the nearest point by mile and the extremes of a trip.  A mile *)
(* of the app is a whole number of miles.                                *)

NoTrailPoint == [id |-> NoVal, mile_est |-> NaN]

Abs(x) == IF x < 0 THEN 0 - x ELSE x

\* the while loop of getNearestPointByMile over indices from 0: the index
\* of a point at the target, or the lo and hi the loop ends with
RECURSIVE bisect(_, _, _, _)
bisect(arr, t, lo, hi) ==
  IF lo > hi THEN [found |-> FALSE, lo |-> lo, hi |-> hi]
  ELSE LET mid == (lo + hi) \div 2
           m == arr[mid + 1].mile_est.n
       IN IF m = t THEN [found |-> TRUE, lo |-> mid, hi |-> mid]
          ELSE IF m < t THEN bisect(arr, t, mid + 1, hi)
          ELSE bisect(arr, t, lo, mid - 1)

Clamp(lo, hi, x) == IF x < lo THEN lo ELSE IF x > hi THEN hi ELSE x

\* as getNearestPointByMile, but of two neighbours as far the upper is taken
getNearestPointByMile_TieUp(arr, targetMile) ==
  IF Len(arr) = 0 \/ ~IsFinite(targetMile) THEN NoTrailPoint
  ELSE LET end == bisect(arr, targetMile.n, 0, Len(arr) - 1)
           a == arr[Clamp(0, Len(arr) - 1, end.hi) + 1]
           b == arr[Clamp(0, Len(arr) - 1, end.lo) + 1]
       IN IF end.found THEN arr[end.lo + 1]
          ELSE IF Abs(a.mile_est.n - targetMile.n)
                    < Abs(b.mile_est.n - targetMile.n)
               THEN a ELSE b

\* NoTrailPoint is the null it returns
getNearestPointByMile(arr, targetMile) ==
  IF Len(arr) = 0 \/ ~IsFinite(targetMile) THEN NoTrailPoint
  ELSE LET end == bisect(arr, targetMile.n, 0, Len(arr) - 1)
           a == arr[Clamp(0, Len(arr) - 1, end.hi) + 1]
           b == arr[Clamp(0, Len(arr) - 1, end.lo) + 1]
       IN IF end.found THEN arr[end.lo + 1]
          ELSE IF Abs(a.mile_est.n - targetMile.n)
                    <= Abs(b.mile_est.n - targetMile.n)
               THEN a ELSE b

\* Math.max(0, Math.min(364, diffDays))
dayIndexInNonLeapYearFromMonthDay(monthDay) ==
  Clamp(0, 364, dayIndexFromMMDD(monthDay))

\* the 365 slots of a normals array whose even days hold p[1] and whose odd
\* days hold p[2]
ArrayOf(p) == [i \in 0..364 |-> p[(i % 2) + 1]]

NoNormals == [has |-> FALSE, hi |-> ArrayOf(<<NullNum, NullNum>>),
              lo |-> ArrayOf(<<NullNum, NullNum>>)]

NoDay == [set |-> FALSE, day |-> 0, targetMile |-> 0, point |-> NoTrailPoint,
          avgHigh |-> NullNum, avgLow |-> NullNum]

trailMinMiles(points) ==
  CHOOSE m \in {points[i].mile_est.n : i \in DOMAIN points} :
    \A i \in DOMAIN points : m <= points[i].mile_est.n

trailMaxMiles(points) ==
  CHOOSE m \in {points[i].mile_est.n : i \in DOMAIN points} :
    \A i \in DOMAIN points : m >= points[i].mile_est.n

\* as targetMileOf, but the mile is not brought back into the trail
targetMileOf_Unclamped(a, i) ==
  LET startMile == IF a.direction = "SOBO" THEN trailMaxMiles(a.points)
                   ELSE trailMinMiles(a.points)
      sign == IF a.direction = "SOBO" THEN 0 - 1 ELSE 1
  IN startMile + sign * (a.milesPerDay * i)

\* lines 460-463: the mile of day i of the trip, kept within the trail
targetMileOf(a, i) ==
  LET startMile == IF a.direction = "SOBO" THEN trailMaxMiles(a.points)
                   ELSE trailMinMiles(a.points)
      sign == IF a.direction = "SOBO" THEN 0 - 1 ELSE 1
  IN Clamp(trailMinMiles(a.points), trailMaxMiles(a.points),
           startMile + sign * (a.milesPerDay * i))

\* lines 465-474: the point of day i, its normals and the index of the day
tripDay(a, i) ==
  LET point == getNearestPointByMile(a.points, Num(targetMileOf(a, i)))
      normals == IF point.id \in DOMAIN a.normals THEN a.normals[point.id]
                 ELSE NoNormals
      idx == dayIndexInNonLeapYearFromMonthDay(
               MonthDayOf(addDays(a.startDate, i)))
  IN [point |-> point, normals |-> normals, idx |-> idx,
      avgHigh |-> normals.hi[idx], avgLow |-> normals.lo[idx]]

\* as dayStep, but the first day evaluated stays the hottest
dayStep_FirstStays(a, i, best) ==
  LET d == tripDay(a, i)
      rec == [set |-> TRUE, day |-> i, targetMile |-> targetMileOf(a, i),
              point |-> d.point, avgHigh |-> d.avgHigh, avgLow |-> d.avgLow]
  IN IF d.point = NoTrailPoint \/ ~d.normals.has THEN best
     ELSE IF ~IsFinite(d.avgHigh) \/ ~IsFinite(d.avgLow) THEN best
     ELSE [hottest |-> IF ~best.hottest.set THEN rec ELSE best.hottest,
           coldest |-> IF ~best.coldest.set
                          \/ rec.avgLow.n < best.coldest.avgLow.n
                       THEN rec ELSE best.coldest]

\* lines 459-483: one turn of the loop over the days of the trip
dayStep(a, i, best) ==
  LET d == tripDay(a, i)
      rec == [set |-> TRUE, day |-> i, targetMile |-> targetMileOf(a, i),
              point |-> d.point, avgHigh |-> d.avgHigh, avgLow |-> d.avgLow]
  IN IF d.point = NoTrailPoint \/ ~d.normals.has THEN best
     ELSE IF ~IsFinite(d.avgHigh) \/ ~IsFinite(d.avgLow) THEN best
     ELSE [hottest |-> IF ~best.hottest.set
                          \/ rec.avgHigh.n > best.hottest.avgHigh.n
                       THEN rec ELSE best.hottest,
           coldest |-> IF ~best.coldest.set
                          \/ rec.avgLow.n < best.coldest.avgLow.n
                       THEN rec ELSE best.coldest]

RECURSIVE durLoop(_, _, _)
durLoop(a, i, best) ==
  IF i >= a.durationDays THEN best ELSE durLoop(a, i + 1, dayStep(a, i, best))

\* the hottest and the coldest day handed to renderDurExtremesBlocks;
\* evaluated is FALSE when the function returns before its loop
computeAndRenderDurationExtremes(a) ==
  IF \A id \in DOMAIN a.normals : ~a.normals[id].has
  THEN [evaluated |-> FALSE, hottest |-> NoDay, coldest |-> NoDay]
  ELSE LET best == durLoop(a, 0, [hottest |-> NoDay, coldest |-> NoDay])
       IN [evaluated |-> TRUE, hottest |-> best.hottest,
           coldest |-> best.coldest]


-----------------------------------------------------------------------------
(* The calls of the app *)

\* point k of a sequence, at mile m
TrailPoint(k, m) == [id |-> "P" \o NatStr(k), mile_est |-> Num(m)]

Marks == {10 * k : k \in 0..MaxNear}

\* the sequences loadPoints leaves sorted by mile, the empty one included
SortedArrs ==
  {[k \in DOMAIN q |-> TrailPoint(k, q[k])] :
     q \in {r \in UNION {[1..n -> Marks] : n \in 0..MaxNear} :
              \A j, k \in DOMAIN r : j < k => r[j] <= r[k]}}

Targets == {Num(t) : t \in (0 - 3)..(10 * MaxNear + 3)} \cup {NaN}

\* the (hi of even days, hi of odd days, lo of even days, lo of odd days)
\* of a normals record
NormalsShapes ==
  { <<Num(80), Num(60), Num(50), Num(30)>>,
    <<Num(90), Num(70), NullNum, Num(40)>>,
    <<NullNum, Num(65), Num(20), Num(45)>>,
    <<NullNum, NullNum, NullNum, NullNum>> }

MakeNormals(sh) ==
  [has |-> TRUE, hi |-> ArrayOf(<<sh[1], sh[2]>>), lo |-> ArrayOf(<<sh[3], sh[4]>>)]

TripPoints(n) == [k \in 1..n |-> TrailPoint(k, 10 * (k - 1))]

\* Feb 28 of a leap year and Dec 31
StartDates == {NewDate(2024, 1, 28), NewDate(2025, 11, 31)}

ExtremesArgs ==
  UNION {{[fn |-> "extremes", points |-> TripPoints(n), normals |-> nm,
           direction |-> dir, startDate |-> sd, milesPerDay |-> mpd,
           durationDays |-> dd] :
            nm \in [{TripPoints(n)[k].id : k \in 1..n} ->
                      {NoNormals} \cup {MakeNormals(sh) : sh \in NormalsShapes}],
            dir \in {"NOBO", "SOBO"}, sd \in StartDates, mpd \in {5, 10},
            dd \in 1..MaxDays} : n \in 1..MaxTrail}

InitTrip ==
  /\ ToolsIdle
  /\ arg \in {[fn |-> "getNearestPointByMile", arr |-> q, targetMile |-> t] :
                q \in SortedArrs, t \in Targets}
          \cup ExtremesArgs
  /\ res = NoCall

Nearest ==
  /\ arg.fn = "getNearestPointByMile"
  /\ res = NoCall
  /\ res' = [fn |-> "getNearestPointByMile",
             point |-> getNearestPointByMile(arg.arr, arg.targetMile)]
  /\ UNCHANGED <<toolVars, arg>>

Extremes ==
  /\ arg.fn = "extremes"
  /\ res = NoCall
  /\ res' = [fn |-> "extremes", out |-> computeAndRenderDurationExtremes(arg)]
  /\ UNCHANGED <<toolVars, arg>>

NextTrip == Nearest \/ Extremes

SpecTrip == InitTrip /\ [][NextTrip]_vars

MilesOf(arr) == [k \in DOMAIN arr |-> arr[k].mile_est.n]

\* C15: for a non-empty sequence sorted by mile and a finite target,
\* getNearestPointByMile returns a point of the sequence no farther from the
\* target than any other; of two neighbours as far it returns the lower,
\* and a point at the target is returned (miles 0, 10, 20: 14 gives 10,
\* 10 gives 10, 15 gives 10).
C15_NearestPoint ==
  (/\ res.fn = "getNearestPointByMile"
   /\ arg.arr # <<>>
   /\ IsFinite(arg.targetMile))
  => LET t == arg.targetMile.n
         got == res.point.mile_est.n
     IN /\ \E k \in DOMAIN arg.arr : arg.arr[k] = res.point
        /\ \A k \in DOMAIN arg.arr :
             /\ Abs(got - t) <= Abs(arg.arr[k].mile_est.n - t)
             /\ Abs(got - t) = Abs(arg.arr[k].mile_est.n - t)
                  => got <= arg.arr[k].mile_est.n
        /\ MilesOf(arg.arr) = <<0, 10, 20>> /\ t \in {10, 14, 15} => got = 10

C15_Witness ==
  /\ res.fn = "getNearestPointByMile"
  /\ MilesOf(arg.arr) = <<0, 10, 20>>
  /\ arg.targetMile = Num(15)
  /\ res.point = TrailPoint(2, 10)

TripDays == 0..(arg.durationDays - 1)

\* C16 as claimed: the hottest day reported has a hi no lower than the hi of
\* any trip day whose nearest point has a record with a hi at the index of
\* that day, and the coldest a lo no higher than the lo of any trip day
\* whose record has a lo there.
C16_ExtremesOverAllDays ==
  (res.fn = "extremes" /\ res.out.evaluated) =>
    \A i \in TripDays :
      LET d == tripDay(arg, i)
      IN /\ (d.normals.has /\ d.avgHigh # NullNum) =>
              /\ res.out.hottest.set
              /\ res.out.hottest.avgHigh.n >= d.avgHigh.n
         /\ (d.normals.has /\ d.avgLow # NullNum) =>
              /\ res.out.coldest.set
              /\ res.out.coldest.avgLow.n <= d.avgLow.n

\* a trip day that counts: its point has a record with both a hi and a lo
\* at the index of the day
Counted(i) ==
  LET d == tripDay(arg, i)
  IN d.normals.has /\ d.avgHigh # NullNum /\ d.avgLow # NullNum

\* C16 as amended: the hottest and the coldest day are taken among the trip
\* days whose point has a record with both a hi and a lo at the index of
\* the day; the hottest has the highest hi and the coldest the lowest lo of
\* these, and a day whose record lacks either value there is left out.
C16_Amended ==
  (res.fn = "extremes" /\ res.out.evaluated) =>
    /\ res.out.hottest.set <=> \E i \in TripDays : Counted(i)
    /\ res.out.coldest.set <=> \E i \in TripDays : Counted(i)
    /\ res.out.hottest.set =>
         /\ Counted(res.out.hottest.day)
         /\ res.out.hottest.avgHigh = tripDay(arg, res.out.hottest.day).avgHigh
    /\ res.out.coldest.set =>
         /\ Counted(res.out.coldest.day)
         /\ res.out.coldest.avgLow = tripDay(arg, res.out.coldest.day).avgLow
    /\ \A i \in TripDays :
         Counted(i) =>
           /\ res.out.hottest.avgHigh.n >= tripDay(arg, i).avgHigh.n
           /\ res.out.coldest.avgLow.n <= tripDay(arg, i).avgLow.n

\* the hottest day reported is the second of the trip, after a first day
\* of a higher hi that has no lo
C16_Witness ==
  /\ res.fn = "extremes" /\ res.out.evaluated
  /\ arg.durationDays >= 2
  /\ tripDay(arg, 0).avgHigh = Num(90) /\ tripDay(arg, 0).avgLow = NullNum
  /\ res.out.hottest.set /\ res.out.hottest.day = 1
  /\ res.out.hottest.avgHigh.n < 90

-----------------------------------------------------------------------------
(* fetchWithRetry of the two earlier aggregators *)

\* the most retries a call is allowed
MaxRetries == 8

baseDelayMs == 800
maxDelayMs == 20000
\* the literals of the second fetchWithRetry
secondBaseMs == 1000
secondCapMs == 15000

RECURSIVE Pow2(_)
Pow2(n) == IF n = 0 THEN 1 ELSE 2 * Pow2(n - 1)

Min(a, b) == IF a <= b THEN a ELSE b

\* resp.ok
IsOk(status) == status \in 200..299

\* baseDelayMs * Math.pow(2, attempt)
backoff(a, attempt) == a.baseDelayMs * Pow2(attempt)

\* the delay before the next attempt.  ra is the Retry-After header: NoNum
\* when the answer has none, BadNum when it is not a number (a date).
\* The first fetchWithRetry reads it, the second does not.
retryDelay(a, ra, attempt) ==
  IF a.version = 1
  THEN LET hinted == IF ra # NoNum
                     THEN (IF IsFinite(NumberOf(ra)) THEN NumberOf(ra).n * 1000 ELSE 0)
                     ELSE backoff(a, attempt)
           delay == IF (ra # NoNum /\ ~IsFinite(NumberOf(ra))) \/ hinted <= 0
                    THEN backoff(a, attempt) ELSE hinted
       IN  Min(delay, a.maxDelayMs)
  ELSE Min(a.maxDelayMs, backoff(a, attempt))

\* a call that has not fetched yet
FetchStart ==
  [fn |-> "fetchWithRetry", pc |-> "fetch", attempt |-> 0, requests |-> 0,
   status |-> 0, ra |-> NoNum, delay |-> 0, prevDelay |-> 0, prevRa |-> NoNum,
   outcome |-> "none"]

\* one pass of the loop body without the test of the last attempt
afterResponse_NoLastCheck(a, r, status, ra) ==
  LET got == [r EXCEPT !.requests = r.requests + 1, !.status = status, !.ra = ra]
  IN  IF IsOk(status)
      THEN [got EXCEPT !.pc = "done", !.outcome = "returned"]
      ELSE IF status \notin Retryable
      THEN [got EXCEPT !.pc = "done", !.outcome = "threw"]
      ELSE [got EXCEPT !.pc = "sleep", !.delay = retryDelay(a, ra, r.attempt),
                       !.prevDelay = r.delay, !.prevRa = r.ra]

\* one pass of the loop body: the answer of fetch(url) is returned, thrown
\* as an error, or waited on
afterResponse(a, r, status, ra) ==
  LET got == [r EXCEPT !.requests = r.requests + 1, !.status = status, !.ra = ra]
  IN  IF IsOk(status)
      THEN [got EXCEPT !.pc = "done", !.outcome = "returned"]
      ELSE IF status \notin Retryable \/ r.attempt = a.maxRetries
      THEN [got EXCEPT !.pc = "done", !.outcome = "threw"]
      ELSE [got EXCEPT !.pc = "sleep", !.delay = retryDelay(a, ra, r.attempt),
                       !.prevDelay = r.delay, !.prevRa = r.ra]

\* attempt++ and the loop test; past the loop the first fetchWithRetry throws
\* "Retry exhausted", the second runs off its end and returns undefined
afterSleep(a, r) ==
  IF r.attempt + 1 <= a.maxRetries
  THEN [r EXCEPT !.pc = "fetch", !.attempt = r.attempt + 1]
  ELSE [r EXCEPT !.pc = "done", !.attempt = r.attempt + 1,
                 !.outcome = IF a.version = 1 THEN "threw" ELSE "undefined"]

FetchStatuses == {200, 404, 429, 502, 503}
RetryAfters == {NoNum, Num(0), Num(5), Num(30), BadNum}

InitFetch ==
  /\ ToolsIdle
  /\ arg \in {[fn |-> "fetchWithRetry", version |-> 1, maxRetries |-> n,
               baseDelayMs |-> baseDelayMs, maxDelayMs |-> maxDelayMs] : n \in 0..MaxRetries}
        \cup {[fn |-> "fetchWithRetry", version |-> 2, maxRetries |-> n,
               baseDelayMs |-> secondBaseMs, maxDelayMs |-> secondCapMs] : n \in 0..MaxRetries}
  /\ res = FetchStart

FetchResponse(status, ra) ==
  /\ arg.fn = "fetchWithRetry"
  /\ res.pc = "fetch"
  /\ res' = afterResponse(arg, res, status, ra)
  /\ UNCHANGED <<toolVars, arg>>

FetchWake ==
  /\ arg.fn = "fetchWithRetry"
  /\ res.pc = "sleep"
  /\ res' = afterSleep(arg, res)
  /\ UNCHANGED <<toolVars, arg>>

NextFetch ==
  \/ (\E status \in FetchStatuses, ra \in RetryAfters : FetchResponse(status, ra))
  \/ FetchWake

SpecFetch == InitFetch /\ [][NextFetch]_vars

\* C24: a call of fetchWithRetry sends at most maxRetries+1 requests; after
\* an answer it has ended or waits for a retry it still has; it has returned
\* exactly when the last answer was a success, and it has thrown exactly when
\* the last answer was neither a success nor 429, 502 or 503, or was one of
\* these at the last allowed attempt.
C24_RetryIsBounded ==
  arg.fn = "fetchWithRetry" =>
    /\ res.requests <= arg.maxRetries + 1
    /\ res.attempt <= arg.maxRetries
    /\ res.pc = "fetch" => res.requests = res.attempt
    /\ res.pc = "sleep" =>
         /\ res.status \in {429, 502, 503}
         /\ res.requests = res.attempt + 1
         /\ res.requests <= arg.maxRetries
    /\ res.pc = "done" =>
         /\ res.outcome \in {"returned", "threw"}
         /\ res.outcome = "returned" <=> res.status = 200
         /\ res.outcome = "threw" <=>
              \/ res.status \notin {200, 429, 502, 503}
              \/ res.status \in {429, 502, 503} /\ res.requests = arg.maxRetries + 1

C24_Witness ==
  /\ arg.fn = "fetchWithRetry"
  /\ arg.version = 2
  /\ arg.maxRetries >= 2
  /\ res.pc = "done"
  /\ res.outcome = "threw"
  /\ res.status = 503
  /\ res.requests = arg.maxRetries + 1

\* the delay the claim gives for an answer with this Retry-After
claimedDelay(a, ra, attempt) ==
  IF ra \notin {NoNum, BadNum} /\ ra.n > 0 THEN ra.n * 1000
  ELSE a.baseDelayMs * Pow2(attempt)

\* C25: the delay waited before a retry is the Retry-After of the answer in
\* milliseconds when the answer has a positive one and baseDelay * 2^attempt
\* otherwise, is above 0 and at most the maximum delay, and is not below the
\* delay before it when neither answer had a Retry-After.
C25_RetryDelay ==
  (arg.fn = "fetchWithRetry" /\ res.pc = "sleep") =>
    /\ res.delay = claimedDelay(arg, res.ra, res.attempt)
    /\ res.delay > 0
    /\ res.delay <= arg.maxDelayMs
    /\ (res.ra = NoNum /\ res.prevRa = NoNum) => res.prevDelay <= res.delay

-----------------------------------------------------------------------------
(* The slots of the annual averages *)

\* the month-days of a year of 365 days
MonthDays365 == [i \in 0..364 |-> monthDayFromDayIndex(i)]

\* the finite values of a field observed on day i of a year of 365 days,
\* whatever the year
ObservedOn(daily, i, field) ==
  LET on == SelectSeq(daily, LAMBDA o :
              /\ SubSeq(o.time, 6, 10) = MonthDays365[i]
              /\ o[field].t = "num")
  IN [k \in DOMAIN on |-> on[k][field].n]

\* slot is the arithmetic mean of values, and null when there are none
IsMeanOf(slot, values) ==
  IF values = <<>> THEN slot.t = "null"
  ELSE /\ slot.t = "num"
       /\ slot.n * Len(values) = SumSeq(values) * slot.d

\* C26: the hi and lo of the annual averages of a daily series have the 365
\* slots 0..364; slot i of hi (lo) is the mean of the finite max (min) values
\* observed on day i of a non-leap year and null when there is none; and no
\* two month-days of the series are put in the same slot.
C26_AnnualSlots ==
  res.fn = "compute365AveragesFromDaily" =>
    /\ DOMAIN res.a.hi = 0..364
    /\ DOMAIN res.a.lo = 0..364
    /\ \A i \in 0..364 :
         /\ IsMeanOf(res.a.hi[i], ObservedOn(arg.daily, i, "max"))
         /\ IsMeanOf(res.a.lo[i], ObservedOn(arg.daily, i, "min"))
    /\ LET keys == accKeys(arg.daily)
       IN \A j, k \in DOMAIN keys :
            /\ dayIndexFromMMDD(keys[j]) \in 0..364
            /\ j # k => dayIndexFromMMDD(keys[j]) # dayIndexFromMMDD(keys[k])

\* Mar 1 of two years with one null min, a Feb 28 beside them
C26_Witness ==
  /\ res.fn = "compute365AveragesFromDaily"
  /\ Len(arg.daily) = 3
  /\ res.a.hi[59] = Mean(130, 2)
  /\ res.a.lo[59] = Mean(40, 1)
  /\ res.a.hi[58] = Mean(50, 1)
  /\ res.a.hi[0] = NoMean

-----------------------------------------------------------------------------
(* What the id migration leaves alone *)

\* a point without its id and legacy_id
OtherFields(p) ==
  [mile |-> p.mile, mile_est |-> p.mile_est, lat |-> p.lat, lon |-> p.lon,
   state |-> p.state]

\* C27: the Point Store the id migration writes has as many points as the
\* store it replaces, and the point at each place has the mile, mile_est,
\* lat, lon and state of the point that was there.
C27_MigrationFrame ==
  [][(pc = "migWrP" /\ pc' = "migWrN") =>
       /\ pointsFile = atStart.points
       /\ Len(pointsFile'.recs) = Len(pointsFile.recs)
       /\ \A i \in DOMAIN pointsFile.recs :
            OtherFields(pointsFile'.recs[i]) = OtherFields(pointsFile.recs[i])]_vars

\* two points written under new ids, the second with a mile_est only
C27_Witness ==
  /\ tool = "mig" /\ pc = "migWrN"
  /\ Len(pointsFile.recs) = 2
  /\ pointsFile.recs[1].id # atStart.points.recs[1].id
  /\ pointsFile.recs[2].id # atStart.points.recs[2].id
  /\ pointsFile.recs[2].mile = NoNum
  /\ OtherFields(pointsFile.recs[2]) = OtherFields(atStart.points.recs[2])

-----------------------------------------------------------------------------
(* The requests of one Aggregator run *)

\* ids is drawn from the ids of recs, in the order of recs
InStoreOrder(ids, recs) ==
  \E f \in [DOMAIN ids -> DOMAIN recs] :
    /\ \A i \in DOMAIN ids : recs[f[i]].id = ids[i]
    /\ \A i, j \in DOMAIN ids : i < j => f[i] < f[j]

\* C28: within an Aggregator run a request is out only for the point
\* requested last, and the requested points follow the order of the Point
\* Store; a request is sent only from the head of the loop, when none is
\* out; and after a request has been answered the run, if it goes on, is in
\* the delay between requests, during which nothing is requested.
C28_SequentialAndThrottled ==
  /\ [](tool = "agg" =>
          /\ InStoreOrder(requested, atStart.points.recs)
          /\ pc = "aggWait" =>
               /\ requested # <<>>
               /\ inflight.id = requested[Len(requested)]
          /\ pc \in {"aggLoop", "aggSleep"} => inflight = NoPoint)
  /\ [][/\ (tool = "agg" /\ pc # "idle" /\ requested' # requested) =>
             /\ pc = "aggLoop" /\ pc' = "aggWait"
             /\ requested' = Append(requested, inflight'.id)
        /\ pc = "aggWait" => pc' \in {"aggSleep", "idle"}
        /\ pc = "aggSleep" => requested' = requested /\ pc' \in {"aggLoop", "idle"}]_vars

\* the second point is requested after the first was answered and the delay
\* has passed
C28_Witness ==
  /\ tool = "agg" /\ pc = "aggWait"
  /\ Len(requested) = 2
  /\ requested[1] = atStart.points.recs[1].id
  /\ requested[2] = atStart.points.recs[2].id
  /\ inflight.id = requested[2]

-----------------------------------------------------------------------------
(* app.js: loadPoints *)

\* points of a Point Store handed to loadPoints
MaxLoad == 2

\* toUpperCase of the state codes of the model
toUpperCase(str) == IF str = "ga" THEN "GA" ELSE str

\* (p.state || "").toString().toUpperCase()
stateOf(p) == IF p.state = NoVal THEN "" ELSE toUpperCase(p.state)

\* the object loadPoints maps a point to: mile_est, lat and lon as numbers,
\* the state in capitals, the other fields as they are
loadedPoint(p) ==
  [p EXCEPT !.state = stateOf(p),
            !.mile_est = NumberOf(p.mile_est),
            !.lat = NumberOf(p.lat),
            !.lon = NumberOf(p.lon),
            !.id = IF p.id # NoVal THEN p.id
                   ELSE stateOf(p) \o "_" \o
                        (IF IsFinite(NumberOf(p.mile_est))
                         THEN StringOf(NumberOf(p.mile_est).n) ELSE "NaN")]

\* p.state && Number.isFinite(p.mile_est) && Number.isFinite(p.lat) && ...
keptPoint(p) ==
  /\ p.state # ""
  /\ IsFinite(p.mile_est)
  /\ IsFinite(p.lat)
  /\ IsFinite(p.lon)

\* allPoints
allPointsOf(data) ==
  SelectSeq([k \in DOMAIN data |-> loadedPoint(data[k])], keptPoint)

\* q with p put after the last point whose mile is not above that of p
RECURSIVE insertByMile(_, _)
insertByMile(q, p) ==
  IF q = <<>> THEN <<p>>
  ELSE IF q[Len(q)].mile_est.n <= p.mile_est.n THEN Append(q, p)
  ELSE Append(insertByMile(SubSeq(q, 1, Len(q) - 1), p), q[Len(q)])

\* [...allPoints].sort((a, b) => a.mile_est - b.mile_est)
RECURSIVE sortByMile(_)
sortByMile(q) ==
  IF q = <<>> THEN <<>>
  ELSE insertByMile(sortByMile(SubSeq(q, 1, Len(q) - 1)), q[Len(q)])

loadPoints(data) == sortByMile(allPointsOf(data))

\* the (mile, mile_est, lat, state) of a point of points.json, miles in miles
LoadShapes ==
  {<<m, e, la, st>> : m \in {NoNum, Num(10)}, e \in {NoNum, Num(20)},
                      la \in {NoNum, Num(34)}, st \in {NoVal, "ga", "GA"}}

LoadPoint(k, sh) ==
  [id |-> "P" \o NatStr(k), legacy_id |-> NoVal, mile |-> sh[1], mile_est |-> sh[2],
   lat |-> sh[3], lon |-> Num(0 - 84), state |-> sh[4]]

LoadStores ==
  {[k \in DOMAIN shs |-> LoadPoint(k, shs[k])] :
     shs \in UNION {[1..n -> LoadShapes] : n \in 0..MaxLoad}}

InitLoad ==
  /\ ToolsIdle
  /\ arg \in {[fn |-> "loadPoints", data |-> d, targetMile |-> Num(t)] :
                d \in LoadStores, t \in {10, 20}}
  /\ res = NoCall

\* the page loads points.json as it is and looks a mile up
Load ==
  /\ arg.fn = "loadPoints"
  /\ res = NoCall
  /\ res' = [fn |-> "loadPoints", data |-> arg.data,
             allPointsSortedByMile |-> loadPoints(arg.data),
             point |-> getNearestPointByMile(loadPoints(arg.data), arg.targetMile)]
  /\ UNCHANGED <<toolVars, arg>>

\* normalize-points-mile-only has rewritten points.json before the page
\* loads it
NormalizeAndLoad ==
  /\ arg.fn = "loadPoints"
  /\ res = NoCall
  /\ NormError(File("rootArray", arg.data, {})) = "none"
  /\ LET written == [k \in DOMAIN arg.data |-> normalizePoint(arg.data[k])]
     IN res' = [fn |-> "loadPoints", data |-> written,
                allPointsSortedByMile |-> loadPoints(written),
                point |-> getNearestPointByMile(loadPoints(written), arg.targetMile)]
  /\ UNCHANGED <<toolVars, arg>>

NextLoad == Load \/ NormalizeAndLoad

SpecLoad == InitLoad /\ [][NextLoad]_vars

\* the mile the claim reads from a point
claimedMile(p) == IF p.mile.t = "num" THEN p.mile ELSE p.mile_est

\* C29: every point of the loaded Point Store that has a finite mile, in
\* mile or in mile_est, a finite lat and lon and a state is in the Point
\* Index, and the lookup of the mile of such a point returns a point.
C29_MileOnlyIndexed ==
  res.fn = "loadPoints" =>
    \A k \in DOMAIN res.data :
      LET p == res.data[k]
      IN (/\ claimedMile(p).t = "num"
          /\ p.lat.t = "num" /\ p.lon.t = "num"
          /\ p.state # NoVal) =>
           /\ \E j \in DOMAIN res.allPointsSortedByMile :
                res.allPointsSortedByMile[j].id = p.id
           /\ claimedMile(p) = arg.targetMile => res.point # NoTrailPoint

-----------------------------------------------------------------------------
(* The days the extremes refer to *)

\* m is a mile between the first and the last point of the trail
WithinTrail(points, m) ==
  /\ \E k \in DOMAIN points : points[k].mile_est.n <= m
  /\ \E k \in DOMAIN points : points[k].mile_est.n >= m

\* C30: after the loop of an extremes evaluation hottest and coldest are
\* both set or both not set; when set, each is a day i of the trip,
\* 0 <= i < durationDays, and its mile is within the trail.
C30_ExtremesBothOrNone ==
  (res.fn = "extremes" /\ res.out.evaluated) =>
    /\ res.out.hottest.set <=> res.out.coldest.set
    /\ \A e \in {res.out.hottest, res.out.coldest} :
         e.set =>
           /\ e.day \in 0..(arg.durationDays - 1)
           /\ WithinTrail(arg.points, e.targetMile)

\* the coldest day is the third, whose mile was brought back to the end of
\* the trail, and the hottest is the first
C30_Witness ==
  /\ res.fn = "extremes" /\ res.out.evaluated
  /\ arg.durationDays = 3 /\ arg.milesPerDay = 10 /\ arg.direction = "NOBO"
  /\ Len(arg.points) = 2
  /\ res.out.hottest.set /\ res.out.coldest.set
  /\ res.out.coldest.day = 2
  /\ res.out.coldest.targetMile = 10
  /\ res.out.hottest.day = 0

====
